---- MODULE Spec2Model ----
(***************************************************************************)
(* A model of zeus_watchdog (src/src/zeus_watchdog.cpp).                   *)
(*                                                                         *)
(* One TopicMonitor per configured topic records the receipt time of every *)
(* message (topicCB) and, in its own thread (TopicMonitor::run), turns the *)
(* recorded stamps into a boolean status.  ZeusWatchdog::run reads every   *)
(* monitor's status, publishes the aggregate and the per topic array, and  *)
(* keeps the aggregate in ZeusWatchdog::status_, which cmdVelCB reads to   *)
(* decide whether a velocity command is forwarded or replaced by zero.     *)
(*                                                                         *)
(* Time is counted in ticks, TicksPerSec ticks to the second.  The code    *)
(* computes with float seconds; the model keeps durations as exact integer *)
(* tick counts and compares quotients by cross multiplication, so float    *)
(* rounding is not modelled.                                               *)
(***************************************************************************)
EXTENDS Integers, Sequences, FiniteSets, TLC

\* ------------------------------------------------------------------ bounds
\* Resolution of the clock.
TicksPerSec == 2
\* Largest value of the clock, and largest number of stamps a monitor's list
\* holds before it is evaluated: in the specifications of the whole node ...
MaxTime == 1
MaxStamps == 2
\* ... and in the specification of one monitor alone.
MaxTimeMon == 4
MaxStampsMon == 4

\* The topic ids topic_1, topic_2 the parameter server may describe.
Topics == {1, 2}
\* Values of <topic_id>/min_freq, in Hz: min_time_ is TicksPerSec ticks, one
\* tick, half a tick.
MinFreqs == {1, TicksPerSec, 2 * TicksPerSec}
\* Values of <topic_id>/monitoring_rate, in Hz.
Rates == {1, TicksPerSec}
\* Velocity commands: ZeroTwist is geometry_msgs::Twist(), all fields zero.
ZeroTwist == 0
Twists == {ZeroTwist, 1}

VARIABLES
    params,          \* the parameter server's content (read only)
    now,             \* ros::Time::now(), in ticks
    \* ---- ZeusWatchdog
    zw_pc,           \* main thread: "ctor", "loop", "info", "check", "publish",
                     \* "done" (run() has returned), "dead"
    topic_list_,     \* ZeusWatchdog::topic_list_: the monitors created, in order
    status_,         \* ZeusWatchdog::status_: the flag cmdVelCB reads
    zw_i,            \* position of the range-for of run() in topic_list_
    topic_array_msg, \* the TopicArray under construction in run()
    status_pub,      \* last message published on "status" (<<>> before the first)
    info_pub,        \* last message published on "info"   (<<>> before the first)
    \* ---- cmdVelCB
    cmd_pc,          \* "idle" or "called" (the spinner has invoked cmdVelCB)
    cmd_msg,         \* the argument of the current or last cmdVelCB
    cmd_vel_pub,     \* what the current or last cmdVelCB published on cmd_vel_out
    \* ---- TopicMonitor, per topic
    tm_pc,           \* run() thread: "off", "idle", "locked", "scan", "retain",
                     \* "done" (run() has returned)
    mu_,             \* TopicMonitor::mu_: TRUE while a thread holds it
    stamps_,         \* TopicMonitor::stamps_
    tm_status_,      \* TopicMonitor::status_
    \* ---- threads and timers, for the specifications that follow them
    ros_ok,          \* ros::ok()
    cb_pc,           \* per topic, topicCB step by step: "idle", "locked"
    gs_pc,           \* getStatus step by step: "idle", "locked", "returned"
    gs_ret,          \* the value the last getStatus returned
    tm_wake,         \* per topic, the time at which r.sleep() of run() returns
    \* ---- history variables (observers, written by no program action)
    h_start_log,     \* stamps_ as it was when the last evaluation took mu_
    h_start_status,  \* status_ as it was when the last evaluation took mu_
    h_fresh,         \* stamps recorded since the last evaluation released mu_
    h_stale,         \* per topic "no" / "tick" / "done", see HistStale
    h_cmd_after,     \* whether the current cmdVelCB was invoked with a stale tick done
    h_tick_read,     \* the statuses the iteration of ZeusWatchdog::run in progress
                     \* (or the last one) got for its array, in the order read
    h_gs_blocked,    \* the getStatus call in progress has waited for an
                     \* evaluation that had written true and was to end with false
    h_shut_held,     \* the monitors whose mu_ was held when ros::ok() turned false
    h_prev,          \* per topic, the last stamp recorded before those of h_fresh
    h_well,          \* [since: "no" / "tick" / "done", was_bad], see HistWell
    h_boot           \* [evald, tick_ok, good], see HistBoot

prog_vars == <<params, now, zw_pc, topic_list_, status_, zw_i, topic_array_msg,
               status_pub, info_pub, cmd_pc, cmd_msg, cmd_vel_pub,
               tm_pc, mu_, stamps_, tm_status_>>
sched_vars == <<ros_ok, cb_pc, gs_pc, gs_ret, tm_wake>>
hist_vars == <<h_start_log, h_start_status, h_fresh, h_stale, h_cmd_after,
               h_tick_read, h_gs_blocked, h_shut_held, h_prev,
               h_well, h_boot>>
vars == <<prog_vars, sched_vars, hist_vars>>

\* ------------------------------------------------------- TopicMonitor: data
\* TopicMonitor::min_freq_, use_average_ and rate_ are copies of the
\* parameters.
min_freq_(m) == params.min_freq[m]
use_average_(m) == params.use_average[m]
rate_(m) == params.monitoring_rate[m]

\* The frequency of the loop of TopicMonitor::run, and the cycle time of its
\* ros::Rate in ticks (min_freq_ and rate_ here always divide TicksPerSec).
run_freq(m) == IF min_freq_(m) < rate_(m) THEN min_freq_(m) ELSE rate_(m)
Period(m) == TicksPerSec \div run_freq(m)

\* `x > min_time_` for a duration of num/den ticks, with
\* min_time_ = 1 / min_freq_ seconds = TicksPerSec / min_freq_ ticks.
ExceedsMinTime(num, den, m) == num * min_freq_(m) > TicksPerSec * den

\* Mutant of ScanStamps: the loop stops one gap early (i < size - 2).
RECURSIVE ScanStamps_SkipLast(_, _, _, _)
ScanStamps_SkipLast(st, i, sum, m) ==
    IF i < Len(st) - 2
    THEN LET elapsed_time == st[i + 2] - st[i + 1]
         IN  IF ~use_average_(m) /\ ExceedsMinTime(elapsed_time, 1, m)
             THEN [status |-> FALSE, sum |-> sum]
             ELSE ScanStamps_SkipLast(st, i + 1, sum + elapsed_time, m)
    ELSE [status |-> TRUE, sum |-> sum]

\* The for loop of TopicMonitor::run over stamps_ = st, from index i
\* (0-based as in the code) with elapsed_time_sum = sum: the status it
\* leaves and the sum it has accumulated.
RECURSIVE ScanStamps(_, _, _, _)
ScanStamps(st, i, sum, m) ==
    IF i < Len(st) - 1
    THEN LET elapsed_time == st[i + 2] - st[i + 1]
         IN  IF ~use_average_(m) /\ ExceedsMinTime(elapsed_time, 1, m)
             THEN [status |-> FALSE, sum |-> sum]
             ELSE ScanStamps(st, i + 1, sum + elapsed_time, m)
    ELSE [status |-> TRUE, sum |-> sum]

\* Mutant of ScanStatus: the average is taken over the gaps (size - 1).
ScanStatus_MeanOfGaps(st, m) ==
    LET scan == ScanStamps(st, 0, 0, m)
    IN  IF use_average_(m) /\ ExceedsMinTime(scan.sum, Len(st) - 1, m)
        THEN FALSE
        ELSE scan.status

\* The status the size >= 2 branch of TopicMonitor::run ends with.
ScanStatus(st, m) ==
    LET scan == ScanStamps(st, 0, 0, m)
    IN  IF use_average_(m) /\ ExceedsMinTime(scan.sum, Len(st), m)
        THEN FALSE
        ELSE scan.status

\* Mutant of Retained: the list is cleared and nothing is pushed back.
Retained_Nothing(st) == <<>>

\* Mutant of Retained: the last two stamps are kept.
Retained_LastTwo(st) == IF Len(st) >= 2 THEN SubSeq(st, Len(st) - 1, Len(st)) ELSE st

\* Mutant of Retained: the first stamp is kept instead of the last.
Retained_First(st) == IF Len(st) >= 1 THEN <<st[1]>> ELSE st

\* stamps_ after the retention block of TopicMonitor::run.
Retained(st) == IF Len(st) >= 1 THEN <<st[Len(st)]>> ELSE st

\* --------------------------------------------------- ZeusWatchdog: start-up
\* The for loop of createTopicMonitors from i (0-based), with topic_list_ = list.
RECURSIVE CreateLoop(_, _)
CreateLoop(i, list) ==
    IF i < params.nb_of_topics
    THEN IF ~params.topic_exists[i + 1]
         THEN list
         ELSE CreateLoop(i + 1, Append(list, i + 1))
    ELSE list

\* topic_list_ when createTopicMonitors returns.  Its bool result (false on
\* the three failure paths, none on the path that falls off the end) is
\* discarded by its only caller, the constructor, so no state depends on it.
createTopicMonitors ==
    IF ~params.nb_of_topics_exists THEN <<>>
    ELSE IF ~params.rate_exists THEN <<>>
    ELSE CreateLoop(0, <<>>)

\* Whether createTopicMonitors has assigned ZeusWatchdog::rate_.
RateAssigned == params.nb_of_topics_exists /\ params.rate_exists

Started(list) == {list[k] : k \in 1..Len(list)}

\* ------------------------------------------------------------------- clock
\* Time passes: the next receipt time is later than the last one.
Advance ==
    /\ now' = now + 1
    /\ UNCHANGED <<params, zw_pc, topic_list_, status_, zw_i, topic_array_msg,
                   status_pub, info_pub, cmd_pc, cmd_msg, cmd_vel_pub,
                   tm_pc, mu_, stamps_, tm_status_>>

\* ------------------------------------------------------------ TopicMonitor
\* Mutant of topicCB: a message received marks the topic healthy at once.
topicCB_SetsStatus(m) ==
    /\ tm_pc[m] # "off"
    /\ zw_pc \notin {"ctor", "dead"}
    /\ ros_ok
    /\ ~mu_[m]
    /\ stamps_' = [stamps_ EXCEPT ![m] = Append(@, now)]
    /\ tm_status_' = [tm_status_ EXCEPT ![m] = TRUE]
    /\ UNCHANGED <<params, now, zw_pc, topic_list_, status_, zw_i, topic_array_msg,
                   status_pub, info_pub, cmd_pc, cmd_msg, cmd_vel_pub,
                   tm_pc, mu_>>

\* Mutant of topicCB: the push is made without taking mu_.
topicCB_NoLock(m) ==
    /\ tm_pc[m] # "off"
    /\ zw_pc \notin {"ctor", "dead"}
    /\ ros_ok
    /\ stamps_' = [stamps_ EXCEPT ![m] = Append(@, now)]
    /\ UNCHANGED <<params, now, zw_pc, topic_list_, status_, zw_i, topic_array_msg,
                   status_pub, info_pub, cmd_pc, cmd_msg, cmd_vel_pub,
                   tm_pc, mu_, tm_status_>>

\* topicCB: under mu_, push the receipt time.  The subscription exists once
\* start() has run and callbacks are served once main has started the spinner,
\* until the node shuts down.
topicCB(m) ==
    /\ tm_pc[m] # "off"
    /\ zw_pc \notin {"ctor", "dead"}
    /\ ros_ok
    /\ ~mu_[m]
    /\ stamps_' = [stamps_ EXCEPT ![m] = Append(@, now)]
    /\ UNCHANGED <<params, now, zw_pc, topic_list_, status_, zw_i, topic_array_msg,
                   status_pub, info_pub, cmd_pc, cmd_msg, cmd_vel_pub,
                   tm_pc, mu_, tm_status_>>

\* getStatus: under mu_, return status_.  Enabled(m) is the lock being free.
getStatusEnabled(m) == ~mu_[m]
getStatus(m) == tm_status_[m]

\* TopicMonitor::run, one iteration of while (ros::ok()), in four steps.
\* (1) the lock_guard takes mu_.
TM_Lock(m) ==
    /\ tm_pc[m] = "idle"
    /\ zw_pc # "dead"
    /\ ros_ok
    /\ ~mu_[m]
    /\ mu_' = [mu_ EXCEPT ![m] = TRUE]
    /\ tm_pc' = [tm_pc EXCEPT ![m] = "locked"]
    /\ UNCHANGED <<params, now, zw_pc, topic_list_, status_, zw_i, topic_array_msg,
                   status_pub, info_pub, cmd_pc, cmd_msg, cmd_vel_pub,
                   stamps_, tm_status_>>

\* Mutant of TM_Check: no else branch, status_ keeps its value on a short list.
TM_Check_KeepsStatus(m) ==
    /\ tm_pc[m] = "locked"
    /\ IF Len(stamps_[m]) >= 2
       THEN /\ tm_status_' = [tm_status_ EXCEPT ![m] = TRUE]
            /\ tm_pc' = [tm_pc EXCEPT ![m] = "scan"]
       ELSE /\ tm_status_' = tm_status_
            /\ tm_pc' = [tm_pc EXCEPT ![m] = "retain"]
    /\ UNCHANGED <<params, now, zw_pc, topic_list_, status_, zw_i, topic_array_msg,
                   status_pub, info_pub, cmd_pc, cmd_msg, cmd_vel_pub,
                   mu_, stamps_>>

\* (2) the test of the size: status_ = true before the scan, or status_ = false.
TM_Check(m) ==
    /\ tm_pc[m] = "locked"
    /\ IF Len(stamps_[m]) >= 2
       THEN /\ tm_status_' = [tm_status_ EXCEPT ![m] = TRUE]
            /\ tm_pc' = [tm_pc EXCEPT ![m] = "scan"]
       ELSE /\ tm_status_' = [tm_status_ EXCEPT ![m] = FALSE]
            /\ tm_pc' = [tm_pc EXCEPT ![m] = "retain"]
    /\ UNCHANGED <<params, now, zw_pc, topic_list_, status_, zw_i, topic_array_msg,
                   status_pub, info_pub, cmd_pc, cmd_msg, cmd_vel_pub,
                   mu_, stamps_>>

\* (3) the scan of the gaps and the test of the average.
TM_Scan(m) ==
    /\ tm_pc[m] = "scan"
    /\ tm_status_' = [tm_status_ EXCEPT ![m] = ScanStatus(stamps_[m], m)]
    /\ tm_pc' = [tm_pc EXCEPT ![m] = "retain"]
    /\ UNCHANGED <<params, now, zw_pc, topic_list_, status_, zw_i, topic_array_msg,
                   status_pub, info_pub, cmd_pc, cmd_msg, cmd_vel_pub,
                   mu_, stamps_>>

\* Mutant of TM_Retain: the thread goes to sleep with mu_ held.
TM_Retain_KeepsLock(m) ==
    /\ tm_pc[m] = "retain"
    /\ stamps_' = [stamps_ EXCEPT ![m] = Retained(@)]
    /\ tm_pc' = [tm_pc EXCEPT ![m] = "idle"]
    /\ UNCHANGED <<params, now, zw_pc, topic_list_, status_, zw_i, topic_array_msg,
                   status_pub, info_pub, cmd_pc, cmd_msg, cmd_vel_pub,
                   mu_, tm_status_>>

\* (4) keep the last stamp, leave the block (mu_ is released), sleep.
TM_Retain(m) ==
    /\ tm_pc[m] = "retain"
    /\ stamps_' = [stamps_ EXCEPT ![m] = Retained(@)]
    /\ mu_' = [mu_ EXCEPT ![m] = FALSE]
    /\ tm_pc' = [tm_pc EXCEPT ![m] = "idle"]
    /\ UNCHANGED <<params, now, zw_pc, topic_list_, status_, zw_i, topic_array_msg,
                   status_pub, info_pub, cmd_pc, cmd_msg, cmd_vel_pub,
                   tm_status_>>

\* Mutant of TopicMonitor_run: status_ is never set back to true.
TopicMonitor_run_Latched(m) ==
    /\ tm_pc[m] = "idle"
    /\ zw_pc # "dead"
    /\ ros_ok
    /\ ~mu_[m]
    /\ tm_status_' = [tm_status_ EXCEPT ![m] =
           @ /\ (IF Len(stamps_[m]) >= 2 THEN ScanStatus(stamps_[m], m) ELSE FALSE)]
    /\ stamps_' = [stamps_ EXCEPT ![m] = Retained(@)]
    /\ UNCHANGED <<params, now, zw_pc, topic_list_, status_, zw_i, topic_array_msg,
                   status_pub, info_pub, cmd_pc, cmd_msg, cmd_vel_pub,
                   tm_pc, mu_>>

\* One whole iteration of TopicMonitor::run.  Every access to stamps_ and
\* status_ is made under mu_, so the iteration is one step for every other
\* thread; this is the block of steps (1) to (4) taken at once.
TopicMonitor_run(m) ==
    /\ tm_pc[m] = "idle"
    /\ zw_pc # "dead"
    /\ ros_ok
    /\ ~mu_[m]
    /\ tm_status_' = [tm_status_ EXCEPT ![m] =
           IF Len(stamps_[m]) >= 2 THEN ScanStatus(stamps_[m], m) ELSE FALSE]
    /\ stamps_' = [stamps_ EXCEPT ![m] = Retained(@)]
    /\ UNCHANGED <<params, now, zw_pc, topic_list_, status_, zw_i, topic_array_msg,
                   status_pub, info_pub, cmd_pc, cmd_msg, cmd_vel_pub,
                   tm_pc, mu_>>

\* ------------------------------------------------------------ ZeusWatchdog
\* main up to the call of run(): the constructor with createTopicMonitors
\* (whose result the constructor ignores), TopicMonitor::start for every
\* monitor created, and the spinner.  When rate_ was never assigned,
\* ros::Rate is built from an indeterminate value: run() may loop at some
\* rate, or ros::Rate may throw and end the process ("dead").
Construct ==
    /\ zw_pc = "ctor"
    /\ topic_list_' = createTopicMonitors
    /\ tm_pc' = [m \in Topics |->
                    IF m \in Started(createTopicMonitors) THEN "idle" ELSE "off"]
    /\ zw_pc' \in (IF RateAssigned THEN {"loop"} ELSE {"loop", "dead"})
    /\ UNCHANGED <<params, now, status_, zw_i, topic_array_msg,
                   status_pub, info_pub, cmd_pc, cmd_msg, cmd_vel_pub,
                   mu_, stamps_, tm_status_>>

\* Mutant of ZW_Begin: the TopicArray is not a fresh one in every iteration.
ZW_Begin_KeepsArray ==
    /\ zw_pc = "loop"
    /\ ros_ok
    /\ status_' = TRUE
    /\ zw_i' = 1
    /\ zw_pc' = IF Len(topic_list_) = 0 THEN "publish" ELSE "info"
    /\ UNCHANGED <<params, now, topic_list_, topic_array_msg, status_pub, info_pub,
                   cmd_pc, cmd_msg, cmd_vel_pub, tm_pc, mu_, stamps_, tm_status_>>

\* ZeusWatchdog::run, one iteration.
\* (1) fresh messages, status_ = true, the range-for starts.
ZW_Begin ==
    /\ zw_pc = "loop"
    /\ ros_ok
    /\ status_' = TRUE
    /\ topic_array_msg' = <<>>
    /\ zw_i' = 1
    /\ zw_pc' = IF Len(topic_list_) = 0 THEN "publish" ELSE "info"
    /\ UNCHANGED <<params, now, topic_list_, status_pub, info_pub,
                   cmd_pc, cmd_msg, cmd_vel_pub, tm_pc, mu_, stamps_, tm_status_>>

\* (2) the first getStatus() of the loop body: the entry of the array.
ZW_Info ==
    /\ zw_pc = "info"
    /\ LET t == topic_list_[zw_i]
       IN  /\ getStatusEnabled(t)
           /\ topic_array_msg' =
                  Append(topic_array_msg, [name |-> t, status |-> getStatus(t)])
    /\ zw_pc' = "check"
    /\ UNCHANGED <<params, now, topic_list_, status_, zw_i, status_pub, info_pub,
                   cmd_pc, cmd_msg, cmd_vel_pub, tm_pc, mu_, stamps_, tm_status_>>

\* (3) the second getStatus() of the loop body: the aggregate.
ZW_Check ==
    /\ zw_pc = "check"
    /\ LET t == topic_list_[zw_i]
       IN  /\ getStatusEnabled(t)
           /\ status_' = IF getStatus(t) = FALSE THEN FALSE ELSE status_
    /\ zw_i' = zw_i + 1
    /\ zw_pc' = IF zw_i = Len(topic_list_) THEN "publish" ELSE "info"
    /\ UNCHANGED <<params, now, topic_list_, topic_array_msg, status_pub, info_pub,
                   cmd_pc, cmd_msg, cmd_vel_pub, tm_pc, mu_, stamps_, tm_status_>>

\* (4) publish both messages, sleep.
ZW_Publish ==
    /\ zw_pc = "publish"
    /\ status_pub' = <<status_>>
    /\ info_pub' = <<topic_array_msg>>
    /\ zw_pc' = "loop"
    /\ UNCHANGED <<params, now, topic_list_, status_, zw_i, topic_array_msg,
                   cmd_pc, cmd_msg, cmd_vel_pub, tm_pc, mu_, stamps_, tm_status_>>

\* ---------------------------------------------------------------- cmdVelCB
\* The spinner takes a message off cmd_vel_in and invokes cmdVelCB with it.
CmdDeliver(X) ==
    /\ cmd_pc = "idle"
    /\ zw_pc \notin {"ctor", "dead"}
    /\ ros_ok
    /\ cmd_pc' = "called"
    /\ cmd_msg' = X
    /\ cmd_vel_pub' = <<>>
    /\ UNCHANGED <<params, now, zw_pc, topic_list_, status_, zw_i, topic_array_msg,
                   status_pub, info_pub, tm_pc, mu_, stamps_, tm_status_>>

\* Mutant of cmdVelCB: the message is forwarded whatever status_ is.
cmdVelCB_Ungated ==
    /\ cmd_pc = "called"
    /\ cmd_vel_pub' = Append(cmd_vel_pub, cmd_msg)
    /\ cmd_pc' = "idle"
    /\ UNCHANGED <<params, now, zw_pc, topic_list_, status_, zw_i, topic_array_msg,
                   status_pub, info_pub, cmd_msg, tm_pc, mu_, stamps_, tm_status_>>

\* The body of cmdVelCB.
cmdVelCB ==
    /\ cmd_pc = "called"
    /\ IF status_ = TRUE
       THEN cmd_vel_pub' = Append(cmd_vel_pub, cmd_msg)
       ELSE cmd_vel_pub' = Append(cmd_vel_pub, ZeroTwist)
    /\ cmd_pc' = "idle"
    /\ UNCHANGED <<params, now, zw_pc, topic_list_, status_, zw_i, topic_array_msg,
                   status_pub, info_pub, cmd_msg, tm_pc, mu_, stamps_, tm_status_>>

\* ---------------------------------------------------------------- shutdown
\* ros::shutdown (SIGINT, or the master's request): ros::ok() turns false.
Shutdown ==
    /\ ros_ok
    /\ zw_pc # "dead"
    /\ ros_ok' = FALSE
    /\ UNCHANGED <<prog_vars, cb_pc, gs_pc, gs_ret, tm_wake>>

\* Mutant of TM_Exit: the thread leaves its loop inside the evaluation block
\* and never gives mu_ back.
TM_Exit_InBlock(m) ==
    /\ tm_pc[m] \in {"idle", "retain"}
    /\ ~ros_ok
    /\ tm_pc' = [tm_pc EXCEPT ![m] = "done"]
    /\ UNCHANGED <<params, now, zw_pc, topic_list_, status_, zw_i, topic_array_msg,
                   status_pub, info_pub, cmd_pc, cmd_msg, cmd_vel_pub,
                   mu_, stamps_, tm_status_, sched_vars>>

\* while (ros::ok()) of TopicMonitor::run is false: run() returns.
TM_Exit(m) ==
    /\ tm_pc[m] = "idle"
    /\ ~ros_ok
    /\ tm_pc' = [tm_pc EXCEPT ![m] = "done"]
    /\ UNCHANGED <<params, now, zw_pc, topic_list_, status_, zw_i, topic_array_msg,
                   status_pub, info_pub, cmd_pc, cmd_msg, cmd_vel_pub,
                   mu_, stamps_, tm_status_, sched_vars>>

\* while (ros::ok()) of ZeusWatchdog::run is false: run() returns.
ZW_Exit ==
    /\ zw_pc = "loop"
    /\ ~ros_ok
    /\ zw_pc' = "done"
    /\ UNCHANGED <<params, now, topic_list_, status_, zw_i, topic_array_msg,
                   status_pub, info_pub, cmd_pc, cmd_msg, cmd_vel_pub,
                   tm_pc, mu_, stamps_, tm_status_, sched_vars>>

\* --------------------------------------- topicCB and getStatus step by step
\* topicCB, (1) the lock_guard takes mu_.
topicCB_Lock(m) ==
    /\ tm_pc[m] # "off"
    /\ zw_pc \notin {"ctor", "dead"}
    /\ ros_ok
    /\ cb_pc[m] = "idle"
    /\ ~mu_[m]
    /\ mu_' = [mu_ EXCEPT ![m] = TRUE]
    /\ cb_pc' = [cb_pc EXCEPT ![m] = "locked"]
    /\ UNCHANGED <<params, now, zw_pc, topic_list_, status_, zw_i, topic_array_msg,
                   status_pub, info_pub, cmd_pc, cmd_msg, cmd_vel_pub,
                   tm_pc, stamps_, tm_status_, ros_ok, gs_pc, gs_ret, tm_wake>>

\* topicCB, (2) push the receipt time and return (mu_ is released).
topicCB_Push(m) ==
    /\ cb_pc[m] = "locked"
    /\ stamps_' = [stamps_ EXCEPT ![m] = Append(@, now)]
    /\ mu_' = [mu_ EXCEPT ![m] = FALSE]
    /\ cb_pc' = [cb_pc EXCEPT ![m] = "idle"]
    /\ UNCHANGED <<params, now, zw_pc, topic_list_, status_, zw_i, topic_array_msg,
                   status_pub, info_pub, cmd_pc, cmd_msg, cmd_vel_pub,
                   tm_pc, tm_status_, ros_ok, gs_pc, gs_ret, tm_wake>>

\* Mutant of getStatus_Lock: the call goes on without waiting for mu_.
getStatus_Lock_NoWait ==
    /\ zw_pc \in {"info", "check"}
    /\ gs_pc = "idle"
    /\ mu_' = [mu_ EXCEPT ![topic_list_[zw_i]] = TRUE]
    /\ gs_pc' = "locked"
    /\ UNCHANGED <<params, now, zw_pc, topic_list_, status_, zw_i, topic_array_msg,
                   status_pub, info_pub, cmd_pc, cmd_msg, cmd_vel_pub,
                   tm_pc, stamps_, tm_status_, ros_ok, cb_pc, gs_ret, tm_wake>>

\* getStatus of the monitor ZeusWatchdog::run is at, (1) the lock_guard takes
\* mu_.
getStatus_Lock ==
    /\ zw_pc \in {"info", "check"}
    /\ gs_pc = "idle"
    /\ ~mu_[topic_list_[zw_i]]
    /\ mu_' = [mu_ EXCEPT ![topic_list_[zw_i]] = TRUE]
    /\ gs_pc' = "locked"
    /\ UNCHANGED <<params, now, zw_pc, topic_list_, status_, zw_i, topic_array_msg,
                   status_pub, info_pub, cmd_pc, cmd_msg, cmd_vel_pub,
                   tm_pc, stamps_, tm_status_, ros_ok, cb_pc, gs_ret, tm_wake>>

\* getStatus, (2) return status_ (mu_ is released).
getStatus_Return ==
    /\ gs_pc = "locked"
    /\ gs_ret' = tm_status_[topic_list_[zw_i]]
    /\ mu_' = [mu_ EXCEPT ![topic_list_[zw_i]] = FALSE]
    /\ gs_pc' = "returned"
    /\ UNCHANGED <<params, now, zw_pc, topic_list_, status_, zw_i, topic_array_msg,
                   status_pub, info_pub, cmd_pc, cmd_msg, cmd_vel_pub,
                   tm_pc, stamps_, tm_status_, ros_ok, cb_pc, tm_wake>>

\* ZW_Info and ZW_Check with the value a getStatus taken in steps returned.
ZW_Info_Returned ==
    /\ zw_pc = "info"
    /\ gs_pc = "returned"
    /\ topic_array_msg' =
           Append(topic_array_msg, [name |-> topic_list_[zw_i], status |-> gs_ret])
    /\ zw_pc' = "check"
    /\ gs_pc' = "idle"
    /\ UNCHANGED <<params, now, topic_list_, status_, zw_i, status_pub, info_pub,
                   cmd_pc, cmd_msg, cmd_vel_pub, tm_pc, mu_, stamps_, tm_status_,
                   ros_ok, cb_pc, gs_ret, tm_wake>>

ZW_Check_Returned ==
    /\ zw_pc = "check"
    /\ gs_pc = "returned"
    /\ status_' = IF gs_ret = FALSE THEN FALSE ELSE status_
    /\ zw_i' = zw_i + 1
    /\ zw_pc' = IF zw_i = Len(topic_list_) THEN "publish" ELSE "info"
    /\ gs_pc' = "idle"
    /\ UNCHANGED <<params, now, topic_list_, topic_array_msg, status_pub, info_pub,
                   cmd_pc, cmd_msg, cmd_vel_pub, tm_pc, mu_, stamps_, tm_status_,
                   ros_ok, cb_pc, gs_ret, tm_wake>>

\* ------------------------------------------------------- history observers
\* The observers read a step of the program and write only history variables.

\* An evaluation of m takes mu_ in this step / releases it in this step.
TakesLock(m) == tm_pc[m] = "idle" /\ tm_pc'[m] = "locked"
ReleasesLock(m) == tm_pc[m] = "retain" /\ tm_pc'[m] = "idle"

\* h_start_log[m], h_start_status[m]: stamps_[m] and status_ of m as the
\*                 last evaluation (in progress or completed) found them.
\* h_fresh[m]:     the receipt times recorded since the last evaluation ended.
HistMonitor ==
    /\ h_start_log' = [m \in Topics |->
           IF TakesLock(m) THEN stamps_[m] ELSE h_start_log[m]]
    /\ h_start_status' = [m \in Topics |->
           IF TakesLock(m) THEN tm_status_[m] ELSE h_start_status[m]]
    /\ h_fresh' = [m \in Topics |->
           IF ReleasesLock(m) THEN <<>>
           ELSE IF stamps_'[m] # stamps_[m] THEN Append(h_fresh[m], now)
           ELSE h_fresh[m]]

\* h_stale[m] = "tick": m's status has read unhealthy since before the
\*                      iteration of ZeusWatchdog::run in progress started;
\*            = "done": ... since before an iteration that has completed
\*                      started;  "no" otherwise.
\* A status counts as read healthy as soon as getStatus could return true.
HistStale ==
    /\ h_stale' = [m \in Topics |->
           IF tm_status_'[m] /\ ~mu_'[m] THEN "no"
           ELSE IF zw_pc = "loop" /\ zw_pc' # "loop"
                THEN IF h_stale[m] = "done" THEN "done"
                     ELSE IF m \in Started(topic_list_) /\ ~mu_[m] THEN "tick"
                     ELSE "no"
           ELSE IF zw_pc = "publish" /\ zw_pc' = "loop" /\ h_stale[m] = "tick"
                THEN "done"
           ELSE h_stale[m]]
    /\ h_cmd_after' =
           IF cmd_pc = "idle" /\ cmd_pc' = "called"
           THEN \E m \in Topics : h_stale[m] = "done"
           ELSE IF cmd_pc' = "idle" THEN FALSE
           ELSE h_cmd_after

\* h_tick_read: emptied when an iteration of ZeusWatchdog::run starts; the
\* k-th time the iteration reads a status for its array, the status the k-th
\* configured monitor has at that moment is appended.
HistTick ==
    h_tick_read' =
        IF zw_pc = "loop" /\ zw_pc' # "loop" THEN <<>>
        ELSE IF zw_pc = "info" /\ zw_pc' # "info"
             THEN Append(h_tick_read, tm_status_[Len(h_tick_read) + 1])
        ELSE h_tick_read

\* Gaps of a list of stamps, for the observers and the claims (stated on the
\* data and not through the operators that model the code).
Gap(st, k) == st[k + 1] - st[k]
\* The gap is longer than min_interval = 1 / min_frequency of topic m.
TooLong(g, m) == g * params.min_freq[m] > TicksPerSec
RECURSIVE SumOfGaps(_)
SumOfGaps(st) ==
    IF Len(st) < 2 THEN 0
    ELSE SumOfGaps(SubSeq(st, 1, Len(st) - 1)) + Gap(st, Len(st) - 1)
\* The evaluation of a list of at least 2 stamps ends with status_ false.
EndsUnhealthy(st, m) ==
    IF params.use_average[m]
    THEN SumOfGaps(st) * params.min_freq[m] > TicksPerSec * Len(st)
    ELSE \E k \in 1..(Len(st) - 1) : TooLong(Gap(st, k), m)

\* h_gs_blocked: set when ZeusWatchdog::run is at a getStatus that has not
\* got mu_ while the monitor's evaluation is between its status_ = true and
\* the end of a scan that ends with false; reset when the returned value is
\* used.
HistBlocked ==
    h_gs_blocked' =
        IF gs_pc = "returned" /\ gs_pc' = "idle" THEN FALSE
        ELSE IF /\ gs_pc' = "idle" /\ zw_pc' \in {"info", "check"}
                /\ tm_pc'[topic_list_'[zw_i']] = "scan"
                /\ tm_status_'[topic_list_'[zw_i']]
                /\ EndsUnhealthy(stamps_'[topic_list_'[zw_i']], topic_list_'[zw_i'])
             THEN TRUE
        ELSE h_gs_blocked

\* What a step of a specification leaves alone besides the variables of its
\* action: the specifications Spec, SpecAll and SpecMonitor take topicCB and
\* getStatus in one step, never shut down and have no timer.
\* h_prev[m]: when an evaluation ends, the last of the receipt times recorded
\*            since the evaluation before it ended, if there is one.
HistPrev ==
    h_prev' = [m \in Topics |->
        IF ReleasesLock(m) /\ h_fresh[m] # <<>>
        THEN <<h_fresh[m][Len(h_fresh[m])]>>
        ELSE h_prev[m]]

HistOfTimed ==
    /\ HistMonitor
    /\ HistPrev
    /\ UNCHANGED <<h_stale, h_cmd_after, h_tick_read, h_gs_blocked,
                   h_shut_held, h_well, h_boot>>
HistOfMonitor ==
    /\ HistMonitor
    /\ HistPrev
    /\ UNCHANGED <<sched_vars, h_stale, h_cmd_after, h_tick_read, h_gs_blocked,
                   h_shut_held, h_well, h_boot>>
HistOfGate ==
    /\ HistStale
    /\ UNCHANGED <<sched_vars, h_start_log, h_start_status, h_fresh, h_tick_read,
                   h_gs_blocked, h_shut_held, h_prev, h_well, h_boot>>
\* h_well.since = "tick": the status of every monitor started has been
\*                 healthy in every state since the iteration of
\*                 ZeusWatchdog::run in progress started;
\*              = "done": ... since an iteration that has completed started;
\*              "no" otherwise.
\* h_well.was_bad: some monitor started has had an unhealthy status.
HistWell ==
    LET bad == \E m \in Started(topic_list_') : ~tm_status_'[m]
    IN  h_well' =
          [since |->
             IF bad THEN "no"
             ELSE IF zw_pc = "loop" /\ zw_pc' \in {"info", "publish"}
                  THEN IF h_well.since = "done" THEN "done" ELSE "tick"
             ELSE IF zw_pc = "publish" /\ zw_pc' = "loop" /\ h_well.since = "tick"
                  THEN "done"
             ELSE h_well.since,
           was_bad |-> h_well.was_bad \/ bad]

HistOfRecover ==
    /\ HistWell
    /\ UNCHANGED <<sched_vars, h_start_log, h_start_status, h_fresh, h_stale,
                   h_cmd_after, h_tick_read, h_gs_blocked, h_shut_held, h_prev,
                   h_boot>>
HistOfLock ==
    /\ HistBlocked
    /\ UNCHANGED <<h_start_log, h_start_status, h_fresh, h_stale, h_cmd_after,
                   h_tick_read, h_shut_held, h_prev, h_well, h_boot>>
\* h_shut_held: the monitors whose mu_ some thread held at the step that
\* turned ros::ok() false.
HistOfStop ==
    /\ h_shut_held' = IF ros_ok /\ ~ros_ok' THEN {m \in Topics : mu_[m]}
                      ELSE h_shut_held
    /\ UNCHANGED <<h_start_log, h_start_status, h_fresh, h_stale, h_cmd_after,
                   h_tick_read, h_gs_blocked, h_prev, h_well, h_boot>>
HistOfAll ==
    /\ HistTick
    /\ UNCHANGED <<sched_vars, h_start_log, h_start_status, h_fresh, h_stale,
                   h_cmd_after, h_gs_blocked, h_shut_held, h_prev, h_well, h_boot>>

\* h_boot.evald:   the monitors whose thread has completed an evaluation;
\*                 ev is the set of those that complete one in this step.
\* h_boot.tick_ok: every status the iteration of ZeusWatchdog::run in progress
\*                 has read so far was the status of a monitor in evald.
\* h_boot.good:    some iteration has completed with tick_ok and published
\*                 the aggregate true.
HistBoot(ev) ==
    h_boot' =
        [evald |-> h_boot.evald \cup ev,
         tick_ok |->
             IF zw_pc = "loop" /\ zw_pc' # "loop" THEN TRUE
             ELSE IF zw_pc \in {"info", "check"} /\ zw_pc' # zw_pc
                  THEN h_boot.tick_ok /\ topic_list_[zw_i] \in h_boot.evald
             ELSE h_boot.tick_ok,
         good |-> \/ h_boot.good
                  \/ /\ zw_pc = "publish" /\ zw_pc' = "loop"
                     /\ h_boot.tick_ok /\ status_pub' = <<TRUE>>]
HistOfBoot(ev) ==
    /\ HistBoot(ev)
    /\ UNCHANGED <<sched_vars, h_start_log, h_start_status, h_fresh, h_stale,
                   h_cmd_after, h_tick_read, h_gs_blocked, h_shut_held, h_prev,
                   h_well>>

\* -------------------------------------------------------------------- Init
\* The object state before main runs.  Neither constructor initialises a
\* status_ member, so both start with an indeterminate value.
InitState ==
    /\ now = 0
    /\ zw_pc = "ctor"
    /\ topic_list_ = <<>>
    /\ status_ \in BOOLEAN
    /\ zw_i = 1
    /\ topic_array_msg = <<>>
    /\ status_pub = <<>>
    /\ info_pub = <<>>
    /\ cmd_pc = "idle"
    /\ cmd_msg = ZeroTwist
    /\ cmd_vel_pub = <<>>
    /\ tm_pc = [m \in Topics |-> "off"]
    /\ mu_ = [m \in Topics |-> FALSE]
    /\ stamps_ = [m \in Topics |-> <<>>]
    /\ tm_status_ \in [Topics -> BOOLEAN]
    /\ h_start_log = [m \in Topics |-> <<>>]
    /\ h_start_status = [m \in Topics |-> FALSE]
    /\ h_fresh = [m \in Topics |-> <<>>]
    /\ h_stale = [m \in Topics |-> "no"]
    /\ h_cmd_after = FALSE
    /\ h_tick_read = <<>>
    /\ h_gs_blocked = FALSE
    /\ h_shut_held = {}
    /\ h_prev = [m \in Topics |-> <<>>]
    /\ h_well = [since |-> "no", was_bad |-> FALSE]
    /\ h_boot = [evald |-> {}, tick_ok |-> FALSE, good |-> FALSE]
    /\ ros_ok = TRUE
    /\ cb_pc = [m \in Topics |-> "idle"]
    /\ gs_pc = "idle"
    /\ gs_ret = FALSE
    /\ tm_wake = [m \in Topics |-> 0]

\* Contents of the parameter server: topic_1 strict, topic_2 averaging, both
\* with a min_time_ of half a tick.
ParamSets ==
    [nb_of_topics_exists : BOOLEAN,
     rate_exists : BOOLEAN,
     nb_of_topics : 0..Cardinality(Topics),
     topic_exists : [Topics -> BOOLEAN],
     min_freq : {[m \in Topics |-> 2 * TicksPerSec]},
     use_average : {[m \in Topics |-> m = 2]},
     monitoring_rate : {[m \in Topics |-> TicksPerSec]}]

\* The configuration is complete: both globals, and every entry up to
\* nb_of_topics; and it names at least one topic.
Complete(p) ==
    /\ p.nb_of_topics_exists
    /\ p.rate_exists
    /\ \A i \in 1..p.nb_of_topics : p.topic_exists[i]
NonEmpty(p) == p.nb_of_topics >= 1

\* Every content that is incomplete or empty, and the complete ones of one topic.
Init ==
    /\ params \in {p \in ParamSets : ~(Complete(p) /\ p.nb_of_topics > 1)}
    /\ InitState

\* The complete configurations of all the topics.
InitAll ==
    /\ params \in {p \in ParamSets :
                      Complete(p) /\ p.nb_of_topics = Cardinality(Topics)}
    /\ InitState

\* A complete configuration of one topic, of either mode and any min_freq.
InitMonitor ==
    /\ params \in [nb_of_topics_exists : {TRUE},
                   rate_exists : {TRUE},
                   nb_of_topics : {1},
                   topic_exists : {[m \in Topics |-> TRUE]},
                   min_freq : [Topics -> MinFreqs],
                   use_average : [Topics -> BOOLEAN],
                   monitoring_rate : {[m \in Topics |-> TicksPerSec]}]
    /\ \A m \in Topics \ {1} : params.min_freq[m] = 1 /\ ~params.use_average[m]
    /\ InitState
    /\ \A m \in Topics \ {1} : ~tm_status_[m]
    /\ ~status_

\* A complete configuration of one topic whose min_time_ is a whole number of
\* ticks, of either mode and any monitoring_rate.
InitTimed ==
    /\ params \in [nb_of_topics_exists : {TRUE},
                   rate_exists : {TRUE},
                   nb_of_topics : {1},
                   topic_exists : {[m \in Topics |-> TRUE]},
                   min_freq : [Topics -> {1, TicksPerSec}],
                   use_average : [Topics -> BOOLEAN],
                   monitoring_rate : [Topics -> Rates]]
    /\ \A m \in Topics \ {1} :
           params.min_freq[m] = 1 /\ ~params.use_average[m]
               /\ params.monitoring_rate[m] = 1
    /\ InitState
    /\ \A m \in Topics \ {1} : ~tm_status_[m]
    /\ ~status_

\* -------------------------------------------------------------------- Next
Next ==
    \/ Construct /\ HistOfGate
    \/ now < MaxTime /\ Advance /\ HistOfGate
    \/ \E m \in Topics : Len(stamps_[m]) < MaxStamps /\ topicCB(m) /\ HistOfGate
    \/ \E m \in Topics : TopicMonitor_run(m) /\ HistOfGate
    \/ ZW_Begin /\ HistOfGate
    \/ ZW_Info /\ HistOfGate
    \/ ZW_Check /\ HistOfGate
    \/ ZW_Publish /\ HistOfGate
    \/ \E X \in Twists : CmdDeliver(X) /\ HistOfGate
    \/ cmdVelCB /\ HistOfGate

Spec == Init /\ [][Next]_vars

\* The same steps as Next, observed from the start of the process.
NextBoot ==
    \/ Construct /\ HistOfBoot({})
    \/ now < MaxTime /\ Advance /\ HistOfBoot({})
    \/ \E m \in Topics :
           Len(stamps_[m]) < MaxStamps /\ topicCB(m) /\ HistOfBoot({})
    \/ \E m \in Topics : TopicMonitor_run(m) /\ HistOfBoot({m})
    \/ ZW_Begin /\ HistOfBoot({})
    \/ ZW_Info /\ HistOfBoot({})
    \/ ZW_Check /\ HistOfBoot({})
    \/ ZW_Publish /\ HistOfBoot({})
    \/ \E X \in Twists : CmdDeliver(X) /\ HistOfBoot({})
    \/ cmdVelCB /\ HistOfBoot({})

SpecBoot == Init /\ [][NextBoot]_vars

\* ZeusWatchdog::run over all the monitors, without velocity commands.
NextAll ==
    \/ Construct /\ HistOfAll
    \/ now < MaxTime /\ Advance /\ HistOfAll
    \/ \E m \in Topics : Len(stamps_[m]) < MaxStamps /\ topicCB(m) /\ HistOfAll
    \/ \E m \in Topics : TopicMonitor_run(m) /\ HistOfAll
    \/ ZW_Begin /\ HistOfAll
    \/ ZW_Info /\ HistOfAll
    \/ ZW_Check /\ HistOfAll
    \/ ZW_Publish /\ HistOfAll

SpecAll == InitAll /\ [][NextAll]_vars

\* One monitor alone: the clock, its callback and its thread, step by step.
NextMonitor ==
    \/ Construct /\ HistOfMonitor
    \/ now < MaxTimeMon /\ Advance /\ HistOfMonitor
    \/ \E m \in Topics : Len(stamps_[m]) < MaxStampsMon /\ topicCB(m) /\ HistOfMonitor
    \/ \E m \in Topics : TM_Lock(m) /\ HistOfMonitor
    \/ \E m \in Topics : TM_Check(m) /\ HistOfMonitor
    \/ \E m \in Topics : TM_Scan(m) /\ HistOfMonitor
    \/ \E m \in Topics : TM_Retain(m) /\ HistOfMonitor

SpecMonitor == InitMonitor /\ [][NextMonitor]_vars

\* One monitor with topicCB, TopicMonitor::run and the getStatus calls of
\* ZeusWatchdog::run all taken step by step around mu_.
NextLock ==
    \/ Construct /\ UNCHANGED sched_vars /\ HistOfLock
    \/ now < MaxTime /\ Advance /\ UNCHANGED sched_vars /\ HistOfLock
    \/ \E m \in Topics : Len(stamps_[m]) < MaxStamps /\ topicCB_Lock(m) /\ HistOfLock
    \/ \E m \in Topics : topicCB_Push(m) /\ HistOfLock
    \/ \E m \in Topics : TM_Lock(m) /\ UNCHANGED sched_vars /\ HistOfLock
    \/ \E m \in Topics : TM_Check(m) /\ UNCHANGED sched_vars /\ HistOfLock
    \/ \E m \in Topics : TM_Scan(m) /\ UNCHANGED sched_vars /\ HistOfLock
    \/ \E m \in Topics : TM_Retain(m) /\ UNCHANGED sched_vars /\ HistOfLock
    \/ ZW_Begin /\ UNCHANGED sched_vars /\ HistOfLock
    \/ getStatus_Lock /\ HistOfLock
    \/ getStatus_Return /\ HistOfLock
    \/ ZW_Info_Returned /\ HistOfLock
    \/ ZW_Check_Returned /\ HistOfLock
    \/ ZW_Publish /\ UNCHANGED sched_vars /\ HistOfLock

SpecLock == InitMonitor /\ [][NextLock]_vars

\* The node with one monitor until it has shut down: every thread step by
\* step around the lock, no clock and no velocity command.
MainStep ==
    \/ Construct /\ UNCHANGED sched_vars /\ HistOfStop
    \/ ZW_Begin /\ UNCHANGED sched_vars /\ HistOfStop
    \/ getStatus_Lock /\ HistOfStop
    \/ getStatus_Return /\ HistOfStop
    \/ ZW_Info_Returned /\ HistOfStop
    \/ ZW_Check_Returned /\ HistOfStop
    \/ ZW_Publish /\ UNCHANGED sched_vars /\ HistOfStop
    \/ ZW_Exit /\ HistOfStop
MonitorStep(m) ==
    \/ TM_Lock(m) /\ UNCHANGED sched_vars /\ HistOfStop
    \/ TM_Check(m) /\ UNCHANGED sched_vars /\ HistOfStop
    \/ TM_Scan(m) /\ UNCHANGED sched_vars /\ HistOfStop
    \/ TM_Retain(m) /\ UNCHANGED sched_vars /\ HistOfStop
    \/ TM_Exit(m) /\ HistOfStop
CallbackReturns(m) == topicCB_Push(m) /\ HistOfStop

NextStop ==
    \/ MainStep
    \/ \E m \in Topics : MonitorStep(m)
    \/ \E m \in Topics : Len(stamps_[m]) < MaxStamps /\ topicCB_Lock(m) /\ HistOfStop
    \/ \E m \in Topics : CallbackReturns(m)
    \/ Shutdown /\ HistOfStop

\* The scheduler runs every thread that can take a step: the main thread,
\* each monitor's thread, and a spinner thread inside a callback.
FairStop ==
    /\ WF_vars(MainStep)
    /\ \A m \in Topics : WF_vars(MonitorStep(m))
    /\ \A m \in Topics : WF_vars(CallbackReturns(m))

SpecStop == InitMonitor /\ [][NextStop]_vars /\ FairStop

\* The node with all its monitors and the velocity commands; the two lists
\* hold at most MaxStamps + 1 stamps together.
NextRecover ==
    \/ Construct /\ HistOfRecover
    \/ now < MaxTime /\ Advance /\ HistOfRecover
    \/ \E m \in Topics : /\ Len(stamps_[m]) < MaxStamps
                          /\ Len(stamps_[1]) + Len(stamps_[2]) <= MaxStamps
                          /\ topicCB(m) /\ HistOfRecover
    \/ \E m \in Topics : TopicMonitor_run(m) /\ HistOfRecover
    \/ ZW_Begin /\ HistOfRecover
    \/ ZW_Info /\ HistOfRecover
    \/ ZW_Check /\ HistOfRecover
    \/ ZW_Publish /\ HistOfRecover
    \/ \E X \in Twists : CmdDeliver(X) /\ HistOfRecover
    \/ cmdVelCB /\ HistOfRecover

SpecRecover == InitAll /\ [][NextRecover]_vars

\* The node with all its monitors and the velocity commands, the threads of
\* run() and the main thread step by step around the locks; no clock, and the
\* two lists hold at most MaxStamps stamps together.
MainSteps ==
    \/ Construct /\ UNCHANGED <<sched_vars, hist_vars>>
    \/ ZW_Begin /\ UNCHANGED <<sched_vars, hist_vars>>
    \/ ZW_Info_Returned /\ UNCHANGED hist_vars
    \/ ZW_Check_Returned /\ UNCHANGED hist_vars
    \/ ZW_Publish /\ UNCHANGED <<sched_vars, hist_vars>>
MainLocks == getStatus_Lock /\ UNCHANGED hist_vars
MainUnlocks == getStatus_Return /\ UNCHANGED hist_vars
MonitorLocks(m) == TM_Lock(m) /\ UNCHANGED <<sched_vars, hist_vars>>
MonitorSteps(m) ==
    \/ TM_Check(m) /\ UNCHANGED <<sched_vars, hist_vars>>
    \/ TM_Scan(m) /\ UNCHANGED <<sched_vars, hist_vars>>
    \/ TM_Retain(m) /\ UNCHANGED <<sched_vars, hist_vars>>
CommandSteps == cmdVelCB /\ UNCHANGED <<sched_vars, hist_vars>>

NextLocks ==
    \/ MainSteps
    \/ MainLocks
    \/ MainUnlocks
    \/ \E m \in Topics : MonitorLocks(m)
    \/ \E m \in Topics : MonitorSteps(m)
    \/ \E m \in Topics : /\ Len(stamps_[1]) + Len(stamps_[2]) < MaxStamps
                          /\ topicCB(m) /\ UNCHANGED <<sched_vars, hist_vars>>
    \/ \E X \in Twists \ {ZeroTwist} :
           CmdDeliver(X) /\ UNCHANGED <<sched_vars, hist_vars>>
    \/ CommandSteps

\* The scheduler runs every thread that can take a step (weak fairness).  A
\* thread waiting in a lock_guard gets mu_ if mu_ is free again and again
\* (strong fairness): the thread of run() sleeps on its timer between two
\* evaluations, with mu_ free.
FairLocks ==
    /\ WF_vars(MainSteps \/ MainUnlocks)
    /\ SF_vars(MainLocks)
    /\ \A m \in Topics : WF_vars(MonitorSteps(m))

SpecLocks == InitAll /\ [][NextLocks]_vars /\ FairLocks

\* One monitor alone with its ros::Rate, on a topic that, from its first
\* message on, never lets more than min_time_ pass between two messages.
\* ros::Rate r(run_freq) starts its first cycle when the thread starts, and
\* r.sleep() returns one cycle time after the start of the cycle; an
\* evaluation takes no time.
Rate_start == tm_wake' = [m \in Topics |-> now]
Rate_due(m) == now >= tm_wake[m]
Rate_sleep(m) == tm_wake' = [tm_wake EXCEPT ![m] = @ + Period(m)]
\* No thread of run() is inside an evaluation or due for one.
NoneDue ==
    \A m \in Topics :
        tm_pc[m] \in {"off", "done"} \/ (tm_pc[m] = "idle" /\ ~Rate_due(m))
\* One more tick would not separate the last message recorded from the next
\* by more than min_time_.
NextInTime ==
    \A m \in Topics :
        stamps_[m] # <<>> =>
            ~ExceedsMinTime(now + 1 - stamps_[m][Len(stamps_[m])], 1, m)

NextTimed ==
    \/ Construct /\ Rate_start /\ UNCHANGED <<ros_ok, cb_pc, gs_pc, gs_ret>>
                 /\ HistOfTimed
    \/ /\ now < MaxTimeMon /\ NoneDue /\ NextInTime
       /\ Advance /\ UNCHANGED sched_vars /\ HistOfTimed
    \/ \E m \in Topics : /\ Len(stamps_[m]) < MaxStampsMon
                          /\ topicCB(m) /\ UNCHANGED sched_vars /\ HistOfTimed
    \/ \E m \in Topics : /\ Rate_due(m)
                          /\ TM_Lock(m) /\ UNCHANGED sched_vars /\ HistOfTimed
    \/ \E m \in Topics : TM_Check(m) /\ UNCHANGED sched_vars /\ HistOfTimed
    \/ \E m \in Topics : TM_Scan(m) /\ UNCHANGED sched_vars /\ HistOfTimed
    \/ \E m \in Topics : /\ TM_Retain(m) /\ Rate_sleep(m)
                          /\ UNCHANGED <<ros_ok, cb_pc, gs_pc, gs_ret>>
                          /\ HistOfTimed

SpecTimed == InitTimed /\ [][NextTimed]_vars

\* ================================================================== claims
\* Vocabulary of the claims, stated on the data and not through the operators
\* that model the code.
\* What an evaluation is to retain of the list it found.
SeedOf(st) == IF st = <<>> THEN <<>> ELSE <<st[Len(st)]>>
\* An evaluation of m has set its verdict and not yet released the lock.
Evaluated(m) == tm_pc[m] = "retain"
\* A run of ZeusWatchdog::run's loop body has completed.
TickCompleted == status_pub # <<>>
\* The last cmdVelCB has returned after forwarding its argument unchanged.
ForwardedUnchanged ==
    cmd_pc = "idle" /\ cmd_msg # ZeroTwist /\ cmd_vel_pub = <<cmd_msg>>

\* C1 (as claimed): at every moment the flag cmdVelCB reads, status_, equals
\* the aggregate published by the last completed iteration of
\* ZeusWatchdog::run.
C1_FlagIsLastAggregate == TickCompleted => status_ = status_pub[1]

\* C2 (as claimed): when some monitor's status has read unhealthy since before
\* the start of an iteration of ZeusWatchdog::run that has completed, a
\* cmdVelCB invoked and executed after that publishes the zero command.
C2_StaleGateStaysClosed ==
    [][ ( /\ cmd_pc = "called" /\ cmd_pc' = "idle"
          /\ h_cmd_after
          /\ \E m \in Topics : h_stale[m] = "done" /\ h_stale'[m] = "done" )
        => cmd_vel_pub' = <<ZeroTwist>> ]_vars

\* C3: every cmdVelCB publishes exactly one command before it returns: its
\* argument when the status_ it reads is true, the zero command otherwise.
C3_OneGatedCommand ==
    [][ (cmd_pc = "called" /\ cmd_pc' = "idle")
        => /\ cmd_vel_pub = <<>>
           /\ cmd_vel_pub' = <<IF status_ THEN cmd_msg ELSE ZeroTwist>> ]_vars

\* C3 witness: a non-zero command was answered by the zero command.
C3_Witness ==
    cmd_pc = "idle" /\ cmd_msg # ZeroTwist /\ cmd_vel_pub = <<ZeroTwist>>

\* C4 (as claimed): the aggregate published by an iteration of
\* ZeusWatchdog::run is the AND of the statuses in the array it publishes.
C4_AggregateIsAndOfArray ==
    TickCompleted =>
        status_pub[1] = (\A k \in 1..Len(info_pub[1]) : info_pub[1][k].status)

\* C5: in strict mode, an evaluation that found at least 2 stamps sets the
\* status healthy iff no gap between adjacent stamps is longer than
\* min_interval.
C5_StrictVerdict ==
    \A m \in Topics :
        (Evaluated(m) /\ ~params.use_average[m] /\ Len(h_start_log[m]) >= 2)
        => ( tm_status_[m] <=>
             \A k \in 1..(Len(h_start_log[m]) - 1) :
                 ~TooLong(Gap(h_start_log[m], k), m) )

\* C5 witness: a strict evaluation answered unhealthy on a list whose first
\* gap is too long (where the scan stops) and whose last gap is not.
C5_Witness ==
    \E m \in Topics :
        /\ Evaluated(m) /\ ~params.use_average[m] /\ Len(h_start_log[m]) >= 3
        /\ TooLong(Gap(h_start_log[m], 1), m)
        /\ ~TooLong(Gap(h_start_log[m], Len(h_start_log[m]) - 1), m)
        /\ ~tm_status_[m]

\* C6: in averaging mode, an evaluation that found n >= 2 stamps sets the
\* status healthy iff (sum of all adjacent gaps) / n <= min_interval.
C6_AverageVerdict ==
    \A m \in Topics :
        (Evaluated(m) /\ params.use_average[m] /\ Len(h_start_log[m]) >= 2)
        => ( tm_status_[m] <=>
             SumOfGaps(h_start_log[m]) * params.min_freq[m]
                 <= TicksPerSec * Len(h_start_log[m]) )

\* C6 witness: an averaging evaluation answered healthy although the mean of
\* the gaps (sum / (n - 1)) is longer than min_interval.
C6_Witness ==
    \E m \in Topics :
        /\ Evaluated(m) /\ params.use_average[m] /\ Len(h_start_log[m]) >= 2
        /\ SumOfGaps(h_start_log[m]) * params.min_freq[m]
               > TicksPerSec * (Len(h_start_log[m]) - 1)
        /\ tm_status_[m]

\* C7: an evaluation that found zero or one stamp sets the status unhealthy,
\* in both modes and whatever the status was before.
C7_ShortListUnhealthy ==
    \A m \in Topics :
        (Evaluated(m) /\ Len(h_start_log[m]) <= 1) => ~tm_status_[m]

\* C7 witness: an averaging evaluation found one stamp and a healthy status,
\* and answered unhealthy.
C7_Witness ==
    \E m \in Topics :
        /\ Evaluated(m) /\ params.use_average[m]
        /\ Len(h_start_log[m]) = 1 /\ h_start_status[m]
        /\ ~tm_status_[m]

\* C8: when an evaluation releases the lock, the list is empty if the
\* evaluation found it empty, and otherwise holds exactly the last stamp of
\* the list the evaluation found.
C8_RetainsLast ==
    [][ \A m \in Topics :
            ReleasesLock(m) => stamps_'[m] = SeedOf(h_start_log[m]) ]_vars

\* C8 witness: a strict evaluation whose scan stopped at the first gap has
\* just released the lock, and the list holds the last of the stamps it found.
C8_Witness ==
    \E m \in Topics :
        /\ tm_pc[m] = "idle" /\ h_fresh[m] = <<>>
        /\ ~params.use_average[m] /\ Len(h_start_log[m]) >= 3
        /\ TooLong(Gap(h_start_log[m], 1), m)
        /\ h_start_log[m][1] # h_start_log[m][Len(h_start_log[m])]
        /\ ~tm_status_[m]
        /\ stamps_[m] = <<h_start_log[m][Len(h_start_log[m])]>>

\* C9: no recorded stamp is lost or duplicated.  While no evaluation runs,
\* the list is the stamp retained by the last evaluation (if any) followed by
\* the stamps recorded since, each once, in recording order; the list an
\* evaluation finds is exactly that, and it does not change under it.
C9_NoLossNoDuplicate ==
    \A m \in Topics :
        IF mu_[m]
        THEN /\ stamps_[m] = h_start_log[m]
             /\ Len(h_fresh[m]) <= Len(stamps_[m])
             /\ Len(stamps_[m]) <= Len(h_fresh[m]) + 1
             /\ SubSeq(stamps_[m], Len(stamps_[m]) - Len(h_fresh[m]) + 1,
                       Len(stamps_[m])) = h_fresh[m]
        ELSE stamps_[m] = SeedOf(h_start_log[m]) \o h_fresh[m]

\* C9 witness: an evaluation found a retained stamp followed by two stamps
\* recorded since the previous evaluation.
C9_Witness ==
    \E m \in Topics :
        /\ mu_[m] /\ Len(h_fresh[m]) = 2
        /\ stamps_[m] = <<h_start_log[m][1]>> \o h_fresh[m]

\* C10 (as claimed): with a configuration that is empty or incomplete, no
\* iteration of ZeusWatchdog::run ever runs, no monitor thread runs, and no
\* cmdVelCB forwards a command unchanged.
C10_BadConfigStops ==
    (~Complete(params) \/ ~NonEmpty(params))
    => /\ zw_pc \in {"ctor", "loop", "dead"} /\ ~TickCompleted
       /\ \A m \in Topics : tm_pc[m] = "off"
       /\ ~ForwardedUnchanged

\* C11: every iteration of ZeusWatchdog::run publishes one aggregate and one
\* array, the array holds exactly one entry per configured monitor, in
\* configuration order, with the status read from that monitor during this
\* iteration; nothing is published outside the publishing step.
C11_FreshCompleteArray ==
    [][ /\ (zw_pc = "publish" /\ zw_pc' = "loop")
           => /\ Len(status_pub') = 1 /\ Len(info_pub') = 1
              /\ info_pub'[1] = [k \in 1..params.nb_of_topics |->
                                    [name |-> k, status |-> h_tick_read[k]]]
        /\ (status_pub' # status_pub \/ info_pub' # info_pub)
           => zw_pc = "publish" ]_vars

\* C11 witness: an iteration has published an array of all the monitors whose
\* two statuses differ, as it read them.
C11_Witness ==
    /\ zw_pc = "loop" /\ TickCompleted
    /\ Len(info_pub[1]) = Cardinality(Topics)
    /\ info_pub[1][1].status /\ ~info_pub[1][2].status
    /\ h_tick_read = <<TRUE, FALSE>>

\* Which threads hold mu_ of monitor m, by their position in the code.
RunHolds(m) == tm_pc[m] \in {"locked", "scan", "retain"}
CbHolds(m) == cb_pc[m] = "locked"
GsHolds(m) ==
    gs_pc = "locked" /\ zw_i \in 1..Len(topic_list_) /\ topic_list_[zw_i] = m
NbHolders(m) ==
    (IF RunHolds(m) THEN 1 ELSE 0) + (IF CbHolds(m) THEN 1 ELSE 0)
        + (IF GsHolds(m) THEN 1 ELSE 0)

\* C12: for each monitor, at most one of topicCB, the evaluation of run() and
\* getStatus is inside its lock-protected part at a time, and mu_ is held
\* exactly then; stamps_ and status_ change only in a step of a thread that
\* holds mu_, and getStatus reads status_ holding mu_; so getStatus never
\* returns the true written before the scan of an evaluation that ends false.
C12_LockProtects ==
    /\ [](\A m \in Topics : NbHolders(m) <= 1 /\ (mu_[m] <=> NbHolders(m) = 1))
    /\ [][ \A m \in Topics :
             (stamps_'[m] # stamps_[m] \/ tm_status_'[m] # tm_status_[m])
             => \/ RunHolds(m) /\ tm_pc'[m] # tm_pc[m]
                \/ CbHolds(m) /\ cb_pc'[m] # cb_pc[m] ]_vars
    /\ [][ (gs_pc = "locked" /\ gs_pc' = "returned")
           => /\ GsHolds(topic_list_[zw_i])
              /\ gs_ret' = tm_status_[topic_list_[zw_i]]
              /\ ~( /\ tm_pc[topic_list_[zw_i]] = "scan"
                    /\ EndsUnhealthy(stamps_[topic_list_[zw_i]], topic_list_[zw_i])
                    /\ gs_ret' ) ]_vars

\* C12 witness: a getStatus that had to wait for an evaluation which had
\* written true and ended with false has returned false.
C12_Witness ==
    gs_pc = "returned" /\ h_gs_blocked /\ ~gs_ret

\* Every loop has stopped: ZeusWatchdog::run and every monitor's run() have
\* returned.
Stopped ==
    /\ zw_pc = "done"
    /\ \A m \in Topics : tm_pc[m] \in {"off", "done"}

\* C13 (as claimed): once ros::ok() is false, every monitor's loop and the
\* loop of ZeusWatchdog::run eventually stop (each thread being scheduled),
\* and when they have stopped no thread holds a monitor's mu_.
C13_StopsClean ==
    /\ (~ros_ok ~> Stopped)
    /\ [](Stopped => \A m \in Topics : ~mu_[m] /\ NbHolders(m) = 0)

\* C13 (amended): once ros::ok() is false, all the loops eventually stop and
\* every mu_ is eventually free; when the loops have stopped no evaluation and
\* no getStatus holds a mu_, and a mu_ is held only by a topicCB that was in
\* progress.
C13_StopsReleased ==
    /\ (~ros_ok ~> (Stopped /\ \A m \in Topics : ~mu_[m]))
    /\ [](Stopped => \A m \in Topics :
                         ~RunHolds(m) /\ ~GsHolds(m) /\ (mu_[m] <=> CbHolds(m)))

\* C13 witness: the node was shut down while the mu_ of its monitor was
\* held, all the loops have stopped and every mu_ is free.
C13_Witness ==
    /\ Stopped /\ h_shut_held # {} /\ TickCompleted
    /\ \A m \in Topics : ~mu_[m]

\* C14: in strict mode, when two stamps recorded one after the other are more
\* than min_interval apart, the first evaluation after the second was
\* recorded sets the status unhealthy, also when evaluations ran between the
\* two recordings.  (h_prev, h_fresh: the stamps in recording order, the first
\* recorded before the evaluation preceding this one ended.)
C14_GapAcrossEvaluations ==
    \A m \in Topics :
        (Evaluated(m) /\ ~params.use_average[m])
        => LET arrivals == h_prev[m] \o h_fresh[m]
           IN  (\E k \in 1..(Len(arrivals) - 1) : TooLong(Gap(arrivals, k), m))
               => ~tm_status_[m]

\* C14 witness: a strict evaluation answered unhealthy where the only gap
\* that is too long is between a stamp recorded before the preceding
\* evaluation ended and the first stamp recorded after it.
C14_Witness ==
    \E m \in Topics :
        /\ Evaluated(m) /\ ~params.use_average[m]
        /\ h_prev[m] # <<>> /\ Len(h_fresh[m]) >= 2
        /\ TooLong(h_fresh[m][1] - h_prev[m][1], m)
        /\ \A k \in 1..(Len(h_fresh[m]) - 1) : ~TooLong(Gap(h_fresh[m], k), m)
        /\ ~tm_status_[m]

\* C15: an evaluation before which no stamp was recorded since the preceding
\* evaluation ended sets the status unhealthy; so the status is unhealthy
\* from the second evaluation after the last recording at the latest, and at
\* every later evaluation until a stamp is recorded.
C15_SilenceUnhealthy ==
    \A m \in Topics :
        (Evaluated(m) /\ h_fresh[m] = <<>>) => ~tm_status_[m]

\* C15 witness: an evaluation that found the status healthy and only the
\* stamp kept by the preceding evaluation has answered unhealthy.
C15_Witness ==
    \E m \in Topics :
        /\ Evaluated(m) /\ h_fresh[m] = <<>>
        /\ Len(h_start_log[m]) = 1 /\ h_prev[m] = h_start_log[m]
        /\ h_start_status[m]
        /\ ~tm_status_[m]

\* C16: unhealthy is not latched.  An evaluation that finds the status
\* unhealthy and a list of at least 2 stamps that satisfies the policy sets it
\* healthy; an iteration of ZeusWatchdog::run during which every monitor read
\* healthy all along ends with status_ true and publishes true; and from then
\* on, as long as they read healthy, cmdVelCB forwards its argument unchanged.
C16_NotLatched ==
    [][ /\ \A m \in Topics :
             ( /\ ~tm_status_[m] /\ Len(stamps_[m]) >= 2
               /\ ~EndsUnhealthy(stamps_[m], m)
               /\ Len(stamps_'[m]) < Len(stamps_[m]) )
             => tm_status_'[m]
        /\ (zw_pc = "publish" /\ zw_pc' = "loop" /\ h_well.since = "tick")
           => (status_' = TRUE /\ status_pub' = <<TRUE>>)
        /\ (cmd_pc = "called" /\ cmd_pc' = "idle" /\ h_well.since = "done")
           => cmd_vel_pub' = <<cmd_msg>> ]_vars

\* C16 witness: a monitor has been unhealthy, then an iteration has run with
\* all the monitors healthy all along, and the command that followed was
\* forwarded unchanged.
C16_Witness ==
    /\ h_well.was_bad /\ h_well.since = "done"
    /\ Started(topic_list_) = Topics
    /\ status_pub = <<TRUE>> /\ status_
    /\ ForwardedUnchanged

\* The locks that neither run() nor topicCB of their monitor is holding: the
\* main thread, the only other one that locks, holds them.
HeldByMain == {m \in Topics : mu_[m] /\ ~RunHolds(m) /\ ~CbHolds(m)}
\* The main thread is inside an iteration of ZeusWatchdog::run.
InTick == zw_pc \in {"info", "check", "publish"}

\* C17: a thread holds at most one mu_ at a time (run() only its monitor's,
\* between taking it and leaving the block; the main thread only that of the
\* monitor whose getStatus it is in), so none is held by a thread asleep on
\* its timer; cmdVelCB changes no mu_ and never waits; some thread can always
\* take a step; and with the threads scheduled fairly every iteration of
\* ZeusWatchdog::run that has started completes.
C17_NoDeadlock ==
    /\ [](\A m \in Topics : RunHolds(m) => mu_[m])
    /\ [](IF gs_pc = "locked" THEN HeldByMain = {topic_list_[zw_i]}
                              ELSE HeldByMain = {})
    /\ [][cmd_pc' # cmd_pc => mu_' = mu_]_vars
    /\ [](cmd_pc = "called" => ENABLED CommandSteps)
    /\ [](zw_pc # "ctor" =>
            ENABLED (MainSteps \/ MainLocks \/ MainUnlocks
                     \/ \E m \in Topics : MonitorSteps(m)))
    /\ InTick ~> ~InTick

\* C17 witness: the main thread waits for the mu_ of the first monitor, held
\* by its evaluation, while the second monitor is inside its evaluation too
\* and a cmdVelCB is in progress.
C17_Witness ==
    /\ zw_pc = "info" /\ gs_pc = "idle" /\ zw_i = 1
    /\ RunHolds(1) /\ mu_[1]
    /\ RunHolds(2) /\ mu_[2]
    /\ cmd_pc = "called"

\* C18: a topicCB of a monitor appends exactly one stamp, the receipt time,
\* to that monitor's list and leaves its status, the lists and statuses of
\* the other monitors and ZeusWatchdog::status_ as they are; a monitor's
\* status changes only in a step of its own evaluation; ZeusWatchdog::status_
\* changes only in a step of ZeusWatchdog::run's loop body, and no step of
\* cmdVelCB or getStatus changes a list, a status or status_.
C18_Frames ==
    [][ /\ \A m \in Topics :
             /\ Len(stamps_'[m]) > Len(stamps_[m])
                => /\ stamps_'[m] = Append(stamps_[m], now)
                   /\ tm_status_' = tm_status_
                   /\ \A o \in Topics \ {m} : stamps_'[o] = stamps_[o]
                   /\ status_' = status_
             /\ tm_status_'[m] # tm_status_[m]
                => (RunHolds(m) /\ tm_pc'[m] # tm_pc[m])
        /\ status_' # status_
           => (zw_pc \in {"loop", "check"} /\ zw_pc' # zw_pc)
        /\ (cmd_pc' # cmd_pc \/ (gs_pc' # gs_pc /\ gs_pc # "returned"))
           => (status_' = status_ /\ tm_status_' = tm_status_ /\ stamps_' = stamps_)
      ]_vars

\* C18 witness: stamps have been recorded for the first monitor since its
\* last evaluation and its status is still unhealthy, while the second
\* monitor's list is empty, its status healthy and ZeusWatchdog::status_ true
\* after a completed iteration.
C18_Witness ==
    /\ tm_pc[1] = "idle" /\ Len(stamps_[1]) >= 2 /\ ~tm_status_[1]
    /\ stamps_[2] = <<>> /\ tm_status_[2] /\ tm_pc[2] = "idle"
    /\ TickCompleted /\ status_

\* C19 (as claimed): the cycle time of the evaluations is never shorter than
\* min_interval, and in strict mode, on a topic whose consecutive messages
\* are never more than min_interval apart, every evaluation that follows one
\* which kept a stamp finds at least 2 stamps and sets the status healthy.
C19_NoFalseAlarm ==
    \A m \in Topics :
        /\ Period(m) * params.min_freq[m] >= TicksPerSec
        /\ (Evaluated(m) /\ ~params.use_average[m] /\ h_prev[m] # <<>>)
           => (Len(h_start_log[m]) >= 2 /\ tm_status_[m])

\* C20 (as claimed): cmdVelCB forwards a command unchanged only after some
\* iteration of ZeusWatchdog::run has completed with the aggregate true,
\* every status it read having been written by a completed evaluation of its
\* monitor; a command that comes earlier is answered by the zero command.
C20_FailSafeStart == ForwardedUnchanged => h_boot.good

====
